---- MODULE Spec2Model ----
(***************************************************************************)
(* Model of mwcp/resources/dispatcher.py: the FileObject record, its       *)
(* output() method, and the Dispatcher (add_to_queue, _identify_file,      *)
(* dispatch, run).  Parsers are the environment: their identify() returns  *)
(* a boolean and may set the description, their run() may enqueue residual *)
(* files, call output() on the file being parsed, and then returns, raises *)
(* UnableToParse, or raises another exception.                             *)
(*                                                                         *)
(* The history variables of a file (identifyLog, runLog, outputCalls,      *)
(* sinkCalls, producers) cover the file dispatch() is working on and are   *)
(* cleared when the next file is popped.  Spec leaves the knowledge base   *)
(* alone, which dispatch() never reads; KBSpec adds the parsers' writes to *)
(* it, and LiveSpec adds fairness to Spec.  An operator named X_Something  *)
(* next to an operator X is X with a plausible slip; the model never uses  *)
(* it, it serves to see that a property depends on X.                      *)
(***************************************************************************)
EXTENDS Integers, Sequences, FiniteSets, TLC

\* ---------------------------------------------------------------- bounds
MaxFiles == 2            \* FileObjects created in one behaviour
MaxSideEffects == 1      \* identify() calls that set a description plus
                         \* output() calls made by parsers, in one behaviour

\* ------------------------------------------------------------- constants
None == "None"           \* Python None for descriptions and parser classes
NoFile == 0              \* Python None for FileObject references

\* the parser classes handed to Dispatcher(parsers=...), in order
Parsers == <<"P1", "P2">>

UnidentifiedFile == "UnidentifiedFile"

\* ComponentParser.DESCRIPTION of each parser class
DESCRIPTION(p) ==
    CASE p = "P1" -> "Stage 1"
      [] p = "P2" -> "Stage 2"
      [] p = UnidentifiedFile -> "Unidentified file"

\* the FileObject(file_name, description, output_file) constructions tried
NewFiles ==
    {<<"a.bin", None, TRUE>>, <<"a.bin", "Given", TRUE>>}

InputFileName == "b.bin"             \* basename of reporter.filename()
IdentifyDescription == "Identified"  \* description set by an identify()
Outcomes == {"ok", "UnableToParse", "Exception"}

\* the keys and values parsers put in Dispatcher.knowledge_base
Keys == {"key"}
KBValues == {"v1", "v2"}

VARIABLES
    parsers,       \* Dispatcher.parsers
    greedy,        \* Dispatcher.greedy
    default,       \* Dispatcher.default
    recordsNames,  \* whether reporter.output_file adds to outputfiles
    fifo_buffer,   \* Dispatcher._fifo_buffer, index 1 is the left end
    current_file_object,   \* Dispatcher._current_file_object
    current_parser_class,  \* Dispatcher._current_parser_class
    files,         \* the FileObjects created so far, by id
    outputfiles,   \* reporter.outputfiles (names held by the sink)
    pc,            \* position of the caller / dispatch()
    file_object,   \* local of dispatch()
    idx,           \* _identify_file: index of the next parser to ask
    identified,    \* _identify_file: local flag
    enqueued,      \* history: ids in add_to_queue order
    dequeued,      \* history: ids in pop order
    producers,     \* history, since the last pop: for each file handed to
                   \* add_to_queue, the file and the parser in execution
    sinkCalls,     \* history of file_object: reporter.output_file calls
    identifyLog,   \* history of file_object: identify() calls and results
    runLog,        \* history of file_object: parsers run and how they ended
    outputCalls,   \* history of file_object: who called output(), in order
    sideEffects,   \* history: description edits by identify() and output()
                   \* calls by parsers so far
    knowledge_base,  \* Dispatcher.knowledge_base, None for a missing key
    kbWritten      \* history: by key, the value a parser assigned last

config == <<parsers, greedy, default, recordsNames>>
engine == <<current_file_object, current_parser_class>>
generator == <<idx, identified>>
fileLogs == <<identifyLog, runLog, outputCalls, sinkCalls>>
store == <<knowledge_base, kbWritten>>

vars == <<config, store, engine, generator, outputfiles, fileLogs, sideEffects, fifo_buffer,
          files, pc, file_object, enqueued, dequeued, producers>>

\* --------------------------------------------------------------- helpers
\* Python truth value of a description: None and '' are false
Truthy(d) == d # None /\ d # ""

\* `x or ''`
OrEmpty(d) == IF Truthy(d) THEN d ELSE ""

\* deque.appendleft(x); the slip: deque.append(x)
AppendLeft_AppendsRight(buf, x) == Append(buf, x)

AppendLeft(buf, x) == <<x>> \o buf

\* deque.pop(): the right end is returned and removed; the slip: it is
\* returned and left in the deque
PopValue(buf) == buf[Len(buf)]

PopRest_KeepsAll(buf) == buf

PopRest(buf) == SubSeq(buf, 1, Len(buf) - 1)

\* reversed(s)
Reverse(s) == [i \in 1..Len(s) |-> s[Len(s) + 1 - i]]

\* FileObject.__init__
NewFileObject(data, name, desc, out) ==
    [file_data |-> data, file_name |-> name, description |-> desc,
     output_file |-> out, outputted_file |-> FALSE, parent |-> NoFile,
     parser |-> None]

\* ------------------------------------------ FileObject.parser_history
\* lines 97-100: the parsers of the parents of a file, nearest first; a
\* FileObject is always true, so the walk ends at parent None
RECURSIVE ParentParsers(_, _)
ParentParsers(fs, parent) ==
    IF parent = NoFile THEN <<>>
    ELSE <<fs[parent].parser>> \o ParentParsers(fs, fs[parent].parent)

\* lines 96-101: the list starts with the parser of the file itself, the
\* parents' parsers are appended, and the list is reversed; the slip: the
\* list starts empty
ParserHistory_WithoutCurrent(fs, id) ==
    LET history == ParentParsers(fs, fs[id].parent)
    IN Reverse(history)

ParserHistory(fs, id) ==
    LET history == <<fs[id].parser>> \o ParentParsers(fs, fs[id].parent)
    IN Reverse(history)

\* ---------------------------------------------------------------- Init
Init ==
    /\ parsers = Parsers
    /\ greedy \in BOOLEAN
    /\ default \in {None, UnidentifiedFile}
    /\ recordsNames \in BOOLEAN
    /\ fifo_buffer = <<>>
    /\ current_file_object = NoFile
    /\ current_parser_class = None
    /\ files = <<>>
    /\ outputfiles = {}
    /\ pc = "idle"
    /\ file_object = NoFile
    /\ idx = 0
    /\ identified = FALSE
    /\ enqueued = <<>>
    /\ dequeued = <<>>
    /\ producers = <<>>
    /\ knowledge_base = [k \in Keys |-> None]
    /\ kbWritten = [k \in Keys |-> None]
    /\ sinkCalls = <<>>
    /\ identifyLog = <<>>
    /\ runLog = <<>>
    /\ outputCalls = <<>>
    /\ sideEffects = 0

\* -------------------------------------------------- FileObject.output()
\* line 150: allowed to output and not outputted yet; the slips: one of
\* the two tests is missing
NotYetOutputted_IgnoresOutputted(f) == f.output_file

NotYetOutputted_IgnoresFlag(f) == ~f.outputted_file

NotYetOutputted(f) == f.output_file /\ ~f.outputted_file

\* line 153: the reporter does not hold the file name yet; the slip: the
\* test is missing
NameNotInReporter_Unchecked(f) == TRUE

NameNotInReporter(f) == f.file_name \notin outputfiles

\* the keyword arguments of reporter.output_file (lines 154-155)
OutputFileArgs(f) ==
    [data |-> f.file_data, filename |-> OrEmpty(f.file_name),
     description |-> OrEmpty(f.description)]

\* FileObject.output() on file id of the arena fs, called by `by`.  The
\* reporter is a collaborator: whether its output_file records the name
\* in outputfiles is its own business, so both kinds of reporter occur.
Output(fs, id, by) ==
    /\ outputCalls' = Append(outputCalls, by)
    /\ IF NotYetOutputted(fs[id]) /\ NameNotInReporter(fs[id])
       THEN /\ sinkCalls' = Append(sinkCalls,
                                   [args |-> OutputFileArgs(fs[id]), by |-> by])
            /\ outputfiles' = IF recordsNames
                              THEN outputfiles \cup {fs[id].file_name}
                              ELSE outputfiles
            /\ files' = [fs EXCEPT ![id].outputted_file = TRUE]
       ELSE /\ files' = fs
            /\ UNCHANGED <<outputfiles, sinkCalls>>

\* ------------------------------------------- Dispatcher.add_to_queue()
\* A new FileObject is built and handed to add_to_queue (lines 338-340).
AddToQueue(name, desc, out) ==
    LET id == Len(files) + 1
        f  == [NewFileObject(id, name, desc, out)
                  EXCEPT !.parent = current_file_object]
    IN /\ Len(files) < MaxFiles
       /\ files' = Append(files, f)
       /\ fifo_buffer' = AppendLeft(fifo_buffer, id)
       /\ enqueued' = Append(enqueued, id)
       /\ producers' = Append(producers,
                               IF pc = "run"
                               THEN [id |-> id, file |-> file_object,
                                     parser |-> runLog[Len(runLog)].parser]
                               ELSE [id |-> id, file |-> NoFile,
                                     parser |-> None])

\* caller code outside dispatch(): dispatcher.add_to_queue(FileObject(...))
CallerAddToQueue ==
    /\ pc = "idle"
    /\ \E new \in NewFiles : AddToQueue(new[1], new[2], new[3])
    /\ UNCHANGED <<config, store, engine, generator, outputfiles, fileLogs, sideEffects, pc,
                   file_object, dequeued>>

\* caller code outside dispatch(): dispatcher.dispatch()
CallDispatch ==
    /\ pc = "idle"
    /\ pc' = "while"
    /\ UNCHANGED <<config, store, engine, generator, outputfiles, fileLogs, sideEffects,
                   fifo_buffer, files, file_object, enqueued, dequeued,
                   producers>>

\* Dispatcher.run(): the input file, never outputted, then dispatch()
Run ==
    /\ pc = "idle"
    /\ AddToQueue(InputFileName, None, FALSE)
    /\ pc' = "while"
    /\ UNCHANGED <<config, store, engine, generator, outputfiles, fileLogs, sideEffects,
                   file_object, dequeued>>

\* ----------------------------------------------- Dispatcher.dispatch()
\* line 372, queue empty: dispatch() returns
DispatchReturn ==
    /\ pc = "while"
    /\ fifo_buffer = <<>>
    /\ pc' = "idle"
    /\ UNCHANGED <<config, store, engine, generator, outputfiles, fileLogs, sideEffects,
                   fifo_buffer, files, file_object, enqueued, dequeued,
                   producers>>

\* lines 372-376: pop the next file and start the _identify_file generator
Dequeue ==
    /\ pc = "while"
    /\ fifo_buffer # <<>>
    /\ file_object' = PopValue(fifo_buffer)
    /\ fifo_buffer' = PopRest(fifo_buffer)
    /\ dequeued' = Append(dequeued, PopValue(fifo_buffer))
    /\ idx' = 1
    /\ identified' = FALSE
    /\ pc' = "identify"
    /\ identifyLog' = <<>>
    /\ runLog' = <<>>
    /\ outputCalls' = <<>>
    /\ sinkCalls' = <<>>
    /\ producers' = <<>>
    /\ UNCHANGED <<config, store, engine, outputfiles, sideEffects, files, enqueued>>

\* lines 380-382: the description the file has once the parser is chosen;
\* the slips: the DESCRIPTION of the parser is never used, or always
DescriptionFallback_Skipped(f, p) == f.description

DescriptionFallback_Overwrites(f, p) == DESCRIPTION(p)

DescriptionFallback(f, p) ==
    IF ~Truthy(f.description) THEN DESCRIPTION(p) ELSE f.description

\* line 377: the file add_to_queue will take as parent from now on; the
\* slip: the assignment is missing
CurrentFileObject_NotSet(fo) == current_file_object

CurrentFileObject(fo) == fo

\* line 385: the parser recorded in the file; the slip: a parser already
\* recorded is kept
ParserClassUsed_KeepsFirst(f, p) == IF f.parser = None THEN p ELSE f.parser

ParserClassUsed(f, p) == p

\* lines 377-385: the loop body up to the construction of the parser, on
\* the arena fs (the files as identify() left them)
BeginParser(fs, p) ==
    /\ current_file_object' = CurrentFileObject(file_object)
    /\ current_parser_class' = p
    /\ files' = [fs EXCEPT
                    ![file_object].description =
                        DescriptionFallback(fs[file_object], p),
                    ![file_object].parser = ParserClassUsed(fs[file_object], p)]
    /\ runLog' = Append(runLog,
                        [parser |-> p,
                         described |-> Truthy(fs[file_object].description),
                         outcome |-> "running"])
    /\ pc' = "run"

\* line 354: the parser class of round i of `for parser_class in
\* self.parsers`; the slip: the list is walked from its end
ParserAt_Reversed(ps, i) == ps[Len(ps) + 1 - i]

ParserAt(ps, i) == ps[i]

\* lines 354-359: one round of the generator's for loop.  identify() may
\* set the description of the file whatever it returns (lines 185-188).
Identify ==
    /\ pc = "identify"
    /\ idx <= Len(parsers)
    /\ \E result \in BOOLEAN, desc \in {None, IdentifyDescription} :
         LET p  == ParserAt(parsers, idx)
             fs == IF desc = None THEN files
                   ELSE [files EXCEPT ![file_object].description = desc]
         IN /\ desc # None => sideEffects < MaxSideEffects
            /\ sideEffects' = IF desc = None THEN sideEffects
                              ELSE sideEffects + 1
            /\ identifyLog' = Append(identifyLog,
                                     [parser |-> p, result |-> result])
            /\ idx' = idx + 1
            /\ IF result
               THEN /\ identified' = TRUE
                    /\ BeginParser(fs, p)
               ELSE /\ files' = fs
                    /\ UNCHANGED <<identified, engine, runLog, pc>>
    /\ UNCHANGED <<config, store, outputfiles, sinkCalls, outputCalls,
                   fifo_buffer,
                   file_object, enqueued, dequeued,
                   producers>>

\* lines 361-366: whether the generator yields self.default; the slips:
\* `identified` is not tested, or the default is never yielded, or it is
\* yielded whenever no parser got through the file
YieldsDefault_IgnoresIdentified(f) == default # None

YieldsDefault_UnlessParsed(f) ==
    /\ default # None
    /\ \A i \in 1..Len(runLog) : runLog[i].outcome = "UnableToParse"

YieldsDefault_Never(f) == FALSE

YieldsDefault(f) == ~identified /\ default # None

\* lines 361-366: the for loop of the generator is over
IdentifyDefault ==
    /\ pc = "identify"
    /\ idx = Len(parsers) + 1
    /\ idx' = idx + 1
    /\ IF YieldsDefault(files[file_object])
       THEN BeginParser(files, default)
       ELSE UNCHANGED <<engine, files, runLog, pc>>
    /\ UNCHANGED <<config, store, outputfiles, sinkCalls, identifyLog,
                   outputCalls, sideEffects,
                   fifo_buffer, file_object, identified, enqueued, dequeued,
                   producers>>

\* line 376: the generator is exhausted, the for loop of dispatch() ends
IdentifyExhausted ==
    /\ pc = "identify"
    /\ idx = Len(parsers) + 2
    /\ pc' = "output"
    /\ UNCHANGED <<config, store, engine, generator, outputfiles, fileLogs, sideEffects,
                   fifo_buffer, files, file_object, enqueued, dequeued,
                   producers>>

\* ---------------------------------------------- parser.run(), line 389
\* the parser hands a residual file to dispatcher.add_to_queue
ParserAddToQueue ==
    /\ pc = "run"
    /\ \E new \in NewFiles : AddToQueue(new[1], new[2], new[3])
    /\ UNCHANGED <<config, store, engine, generator, outputfiles, fileLogs, sideEffects, pc,
                   file_object, dequeued>>

\* the parser calls self.file_object.output() itself
ParserOutput ==
    /\ pc = "run"
    /\ sideEffects < MaxSideEffects
    /\ sideEffects' = sideEffects + 1
    /\ Output(files, file_object, "parser")
    /\ UNCHANGED <<config, store, engine, generator, identifyLog, runLog,
                   fifo_buffer, pc, file_object, enqueued, dequeued,
                   producers>>

\* dispatcher.knowledge_base[k] = v on the dict of line 312; the slip:
\* setdefault, a key that is present keeps its value
Write_KeepsFirst(kb, k, v) == IF kb[k] = None THEN [kb EXCEPT ![k] = v] ELSE kb

Write(kb, k, v) == [kb EXCEPT ![k] = v]

\* the parser assigns a key of self.dispatcher.knowledge_base
ParserWriteKB ==
    /\ pc = "run"
    /\ \E k \in Keys, v \in KBValues :
         /\ knowledge_base' = Write(knowledge_base, k, v)
         /\ kbWritten' = [kbWritten EXCEPT ![k] = v]
    /\ UNCHANGED <<config, engine, generator, outputfiles, fileLogs,
                   sideEffects, fifo_buffer, files, pc, file_object, enqueued,
                   dequeued, producers>>

\* lines 387-403: where dispatch() goes when the parser ended with outcome:
\* UnableToParse continues the for loop, any other exception is logged,
\* and without greedy the loop is left.  The slips: the break is missing;
\* the greedy test is missing; UnableToParse is not caught apart; another
\* exception is not caught and ends dispatch().
AfterRun_NeverBreak(outcome) == "identify"

AfterRun_AlwaysBreak(outcome) ==
    IF outcome = "UnableToParse" THEN "identify" ELSE "output"

AfterRun_NoRetry(outcome) == IF greedy THEN "identify" ELSE "output"

AfterRun_Propagate(outcome) ==
    IF outcome = "Exception" THEN "idle"
    ELSE IF outcome = "UnableToParse" \/ greedy THEN "identify" ELSE "output"

AfterRun(outcome) ==
    IF outcome = "UnableToParse" THEN "identify"
    ELSE IF greedy THEN "identify" ELSE "output"

\* lines 388-403: the parser returns or raises
ParserFinish ==
    /\ pc = "run"
    /\ \E outcome \in Outcomes :
         /\ runLog' = [runLog EXCEPT ![Len(runLog)].outcome = outcome]
         /\ pc' = AfterRun(outcome)
    /\ UNCHANGED <<config, store, engine, generator, outputfiles, sinkCalls,
                   identifyLog, outputCalls,
                   sideEffects, fifo_buffer, files, file_object, enqueued,
                   dequeued,
                   producers>>

\* lines 405-408: file_object.output(), then back to the while test; the
\* generator of this file is gone
DispatchOutput ==
    /\ pc = "output"
    /\ Output(files, file_object, "dispatch")
    /\ pc' = "while"
    /\ idx' = 0
    /\ identified' = FALSE
    /\ UNCHANGED <<config, store, engine, identifyLog, runLog, sideEffects, fifo_buffer,
                   file_object, enqueued, dequeued,
                   producers>>

Next ==
    \/ CallerAddToQueue
    \/ CallDispatch
    \/ Run
    \/ DispatchReturn
    \/ Dequeue
    \/ Identify
    \/ IdentifyDefault
    \/ IdentifyExhausted
    \/ ParserAddToQueue
    \/ ParserOutput
    \/ ParserFinish
    \/ DispatchOutput

Spec == Init /\ [][Next]_vars

\* the steps dispatch() takes by itself.  The code is sequential: once
\* dispatch() is called it runs on, and identify() and run() are taken to
\* return or raise (they do not hang), so a step of dispatch() that stays
\* possible is taken eventually.  The caller is under no obligation.
DispatchStep ==
    \/ Dequeue
    \/ Identify
    \/ IdentifyDefault
    \/ IdentifyExhausted
    \/ ParserFinish
    \/ DispatchOutput
    \/ DispatchReturn

LiveSpec == Spec /\ WF_vars(DispatchStep)

\* Spec with parsers that write to the knowledge base, for a reporter
\* whose output_file does not record names
KBInit == Init /\ ~recordsNames

KBNext == Next \/ ParserWriteKB

KBSpec == KBInit /\ [][KBNext]_vars

\* ------------------------------------------------ vocabulary of claims
Range(s) == {s[i] : i \in 1..Len(s)}

Occurrences(s, x) == Cardinality({i \in 1..Len(s) : s[i] = x})

\* the parsers whose identify() returned True for file_object, in order
Matched ==
    LET hits == SelectSeq(identifyLog, LAMBDA e : e.result)
    IN [i \in 1..Len(hits) |-> hits[i].parser]

\* the parsers of Dispatcher.parsers asked so far for file_object
Asked == [i \in 1..Len(identifyLog) |-> identifyLog[i].parser]

\* the parsers executed on file_object, in order
Executed == [i \in 1..Len(runLog) |-> runLog[i].parser]

\* the registered parsers among them
ExecutedRegistered ==
    SelectSeq(Executed, LAMBDA p : p \in Range(parsers))

\* the for loop over the parsers of file_object is over
LoopOver == file_object # NoFile /\ pc \in {"output", "while", "idle"}

\* dispatch() has called output() on file_object
Done == "dispatch" \in Range(outputCalls)

\* the queue holds the files enqueued and not yet popped, oldest rightmost
QueueIsPending == dequeued \o Reverse(fifo_buffer) = enqueued

C2_AtMostOneExecute == ~greedy => Len(runLog) <= 1

\* C2 as amended: without greedy every execute on a file but the last one
\* ended with UnableToParse, so at most one execute ends otherwise, and no
\* parser is executed twice.
C2_AtMostOneSettledExecute ==
    ~greedy =>
        /\ \A i \in 1..(Len(runLog) - 1) :
               runLog[i].outcome = "UnableToParse"
        /\ \A i, j \in 1..Len(runLog) :
               runLog[i].parser = runLog[j].parser => i = j

\* without greedy P1 raised UnableToParse and P2 then ran and returned
C2_Witness ==
    /\ ~greedy
    /\ Len(runLog) = 2
    /\ runLog[1].outcome = "UnableToParse"
    /\ runLog[2].outcome = "ok"

\* C3: with greedy, once the loop over a file is over every registered
\* parser has been asked, in registration order, and the registered
\* parsers executed are exactly those whose identify() returned True, each
\* once and in that order, whatever the outcomes were.
C3_GreedyRunsEveryMatch ==
    greedy /\ LoopOver =>
        /\ Asked = parsers
        /\ ExecutedRegistered = Matched
        /\ \A i \in 1..Len(runLog) : runLog[i].outcome # "running"

\* with greedy P1 raised an exception and P2 ran all the same
C3_Witness ==
    /\ greedy
    /\ LoopOver
    /\ Len(runLog) = 2
    /\ runLog[1].outcome = "Exception"
    /\ runLog[2].outcome = "ok"

\* some execute on file_object ended with outcome
Ended(outcome) == \E i \in 1..Len(runLog) : runLog[i].outcome = outcome

\* C4: when a parser raised UnableToParse on a file, in either mode, the
\* file was popped once and is not back in the queue, the queue holds just
\* the enqueued files not popped yet, every later identify() that returned
\* True was followed by the execute of its parser on the same file, and the
\* loop over the file did not end before every registered parser was asked.
C4_RetryWithNext ==
    Ended("UnableToParse") =>
        /\ Occurrences(dequeued, file_object) = 1
        /\ file_object \notin Range(fifo_buffer)
        /\ QueueIsPending
        /\ ExecutedRegistered = Matched
        /\ LoopOver => Asked = parsers

\* P1 raised UnableToParse on file 1, P2 was executed on it next, and
\* file 2 waited in the queue meanwhile
C4_Witness ==
    /\ file_object = 1
    /\ Len(runLog) = 2
    /\ runLog[1].outcome = "UnableToParse"
    /\ runLog[2].parser = "P2"
    /\ fifo_buffer = <<2>>

\* C5: an exception other than UnableToParse does not end dispatch():
\* without greedy it is the last execute on the file, with greedy the
\* remaining parsers are still asked and the matching ones executed, and
\* in both modes the loop goes on to output() of the file and to the while
\* test, so dispatch() returns only with the file outputted and the queue
\* empty.
C5_StateAfterException ==
    Ended("Exception") =>
        /\ ~greedy => runLog[Len(runLog)].outcome = "Exception"
        /\ ~greedy => Asked[Len(Asked)] = Executed[Len(Executed)]
                       \/ Executed[Len(Executed)] = default
        /\ greedy /\ LoopOver => Asked = parsers /\ ExecutedRegistered = Matched
        /\ pc \in {"while", "idle"} => Done

C5_FailureIsolation ==
    /\ [](C5_StateAfterException)
    /\ [][pc # "idle" /\ pc' = "idle" => fifo_buffer = <<>> /\ pc = "while"]_vars

\* a parser raised an exception on a file, the file was outputted after it
\* and dispatch() is back at the while test with a file left to pop
C5_Witness ==
    /\ Ended("Exception")
    /\ Done
    /\ pc = "while"
    /\ fifo_buffer # <<>>

\* the FileObject dispatch() is working on or has just finished
Current == files[file_object]

\* an output() call on file_object is the step taken
OutputCalled == Len(outputCalls') = Len(outputCalls) + 1

\* C6 as stated, for the files on which no parser called output() itself:
\* a file with output_file set that dispatch() has finished was handed to
\* reporter.output_file exactly once, and by the output() call that ends
\* its loop, after every identify() and every execute.
C6_OutputOnceAtEnd ==
    /\ file_object # NoFile
    /\ Done
    /\ Current.output_file
    /\ "parser" \notin Range(outputCalls)
    => /\ Len(sinkCalls) = 1
       /\ sinkCalls[1].by = "dispatch"

\* C6 as amended: dispatch() calls output() on each popped file exactly
\* once, as the last step on the file, after every identify() and execute
\* on it has finished; a file with output_file set reaches
\* reporter.output_file at most once, from that call unless an output()
\* call of a parser emitted it before, and not at all only if the reporter
\* holds its name.
C6_OutputAtMostOnceEngineLast ==
    file_object # NoFile =>
        /\ Occurrences(outputCalls, "dispatch") <= 1
        /\ pc \in {"while", "idle"} <=> Done
        /\ Done =>
              /\ outputCalls[Len(outputCalls)] = "dispatch"
              /\ \A i \in 1..Len(runLog) : runLog[i].outcome # "running"
        /\ Len(sinkCalls) <= 1
        /\ Done /\ Current.output_file /\ sinkCalls = <<>> =>
              Current.file_name \in outputfiles
        /\ Done /\ sinkCalls # <<>> /\ sinkCalls[1].by # "dispatch" =>
              outputCalls[1] = "parser"

\* a parser ran on a file with output_file set, and the reporter got the
\* file once, from the output() call of dispatch()
C6_Witness ==
    /\ file_object # NoFile
    /\ Done
    /\ Current.output_file
    /\ Len(runLog) >= 1
    /\ Len(sinkCalls) = 1
    /\ sinkCalls[1].by = "dispatch"

\* C7 as stated: output() on a file with output_file set and not outputted
\* yet calls reporter.output_file and sets _outputted_file, whatever the
\* reporter holds.
C7_OutputAlwaysEmits ==
    [][OutputCalled /\ Current.output_file /\ ~Current.outputted_file =>
          /\ Len(sinkCalls') = Len(sinkCalls) + 1
          /\ files'[file_object].outputted_file]_vars

\* C7 as amended: output() on a file with output_file set, not outputted
\* yet and whose name the reporter does not hold calls
\* reporter.output_file with the data, the name and the description of the
\* file ('' for none) and sets _outputted_file; if the reporter holds the
\* name, or in any other case, output() calls nothing and changes nothing.
C7_OutputEmitsUnlessNameHeld ==
    [][OutputCalled =>
          IF /\ Current.output_file
             /\ ~Current.outputted_file
             /\ Current.file_name \notin outputfiles
          THEN /\ Len(sinkCalls') = Len(sinkCalls) + 1
               /\ sinkCalls'[Len(sinkCalls')].args =
                     [data |-> file_object,
                      filename |-> Current.file_name,
                      description |-> IF Current.description = None THEN ""
                                      ELSE Current.description]
               /\ files' = [files EXCEPT ![file_object].outputted_file = TRUE]
          ELSE /\ sinkCalls' = sinkCalls
               /\ files' = files
               /\ outputfiles' = outputfiles]_vars

\* output() was called on a file with output_file set whose name the
\* reporter held from an earlier file: nothing was emitted and the file is
\* not marked outputted
C7_Witness ==
    /\ file_object # NoFile
    /\ outputCalls # <<>>
    /\ Current.output_file
    /\ ~Current.outputted_file
    /\ Current.file_name \in outputfiles
    /\ sinkCalls = <<>>

\* C8 as stated: any number of output() calls on a file with output_file
\* set makes exactly one reporter.output_file call, and none on a file
\* without it.
C8_ExactlyOneEmission ==
    file_object # NoFile /\ outputCalls # <<>> =>
        Len(sinkCalls) = (IF Current.output_file THEN 1 ELSE 0)

\* C8 as amended: any number of output() calls on a file with output_file
\* set makes at most one reporter.output_file call: exactly one unless the
\* reporter holds the name of the file, and then none; a file without
\* output_file never reaches the reporter.
C8_AtMostOneEmission ==
    file_object # NoFile /\ outputCalls # <<>> =>
        IF Current.output_file
        THEN /\ Len(sinkCalls) <= 1
             /\ Len(sinkCalls) = 1 <=> Current.outputted_file
             /\ sinkCalls = <<>> => Current.file_name \in outputfiles
        ELSE sinkCalls = <<>> /\ ~Current.outputted_file

\* output() was called twice on a file with output_file set, by a parser
\* and by dispatch(), and the reporter got the file once
C8_Witness ==
    /\ file_object # NoFile
    /\ Current.output_file
    /\ outputCalls = <<"parser", "dispatch">>
    /\ Len(sinkCalls) = 1

\* no registered parser matched file_object and the generator has decided
\* about the default
NoMatch ==
    /\ file_object # NoFile
    /\ Asked = parsers
    /\ Matched = <<>>
    /\ pc = "identify" => idx = Len(parsers) + 2

\* C9: when no registered parser matched a file, a default is configured
\* and the file has no description, the default is executed on it exactly
\* once, its description becomes the DESCRIPTION of the default and its
\* parser the default; when nothing matched and no default is configured,
\* nothing is executed on it.
C9_DefaultFallback ==
    NoMatch =>
        IF default = None
        THEN runLog = <<>> /\ Current.parser = None
        ELSE /\ Len(runLog) = 1
             /\ runLog[1].parser = default
             /\ Current.parser = default
             /\ ~runLog[1].described =>
                   Current.description = DESCRIPTION(default)

\* nothing matched a file without description, and the default has run on
\* it and returned
C9_Witness ==
    /\ NoMatch
    /\ Len(runLog) = 1
    /\ runLog[1].parser = UnidentifiedFile
    /\ ~runLog[1].described
    /\ runLog[1].outcome = "ok"
    /\ Current.description = "Unidentified file"

RECURSIVE Depth(_)
Depth(id) == IF files[id].parent = NoFile THEN 0 ELSE 1 + Depth(files[id].parent)

FileIds == 1..Len(files)

\* C11 as stated: the parser history of every file has as many entries as
\* the file has parent links above it, so none for a file without parent.
C11_HistoryLengthIsDepth ==
    \A id \in FileIds : Len(ParserHistory(files, id)) = Depth(id)

\* C11 as amended: the parser history of every file has one entry more
\* than the file has parent links above it, because it ends with the
\* parser of the file itself (None while no parser was chosen for it); it
\* is root-first: the history of a file without parent is its own parser
\* alone, and the history of any other file is the history of its parent
\* followed by its own parser.
C11_HistoryLengthIsDepthPlusOne ==
    [](\A id \in FileIds :
          LET h == ParserHistory(files, id)
              n == Len(h)
          IN /\ n = Depth(id) + 1
             /\ h[n] = files[id].parser
             /\ SubSeq(h, 1, n - 1) =
                   (IF files[id].parent = NoFile THEN <<>>
                    ELSE ParserHistory(files, files[id].parent)))

\* file 2 was enqueued while P1 ran on file 1 and was given P2: its
\* history names both parsers, the parent's first
C11_Witness ==
    /\ Len(files) = 2
    /\ files[2].parent = 1
    /\ Depth(2) = 1
    /\ ParserHistory(files, 2) = <<"P1", "P2">>


\* the add_to_queue calls of a running parser since the last pop
ParserEnqueued == {e \in Range(producers) : e.parser # None}

\* dispatch() has popped file a and its loop over a is over
Finished(a) ==
    /\ a \in Range(dequeued)
    /\ a # file_object \/ pc \in {"output", "while", "idle"}

\* the entry of the parent in the parser history of file x
ParentEntry(x) ==
    LET h == ParserHistory(files, x) IN h[Len(h) - 1]

\* C12: for every file X that parser D handed to add_to_queue while it
\* ran on file A, once dispatch() is through with A the parent of X is A
\* and the parser history of X names D for A, also when several parsers
\* ran on A (greedy, or after UnableToParse).
C12_Provenance ==
    \A e \in ParserEnqueued :
        Finished(e.file) =>
            /\ files[e.id].parent = e.file
            /\ ParentEntry(e.id) = e.parser

\* C13: add_to_queue gives a file the parent that is in progress at that
\* moment: the file a parser is running on, and None when the caller
\* enqueues it outside dispatch(), before the first dispatch() or after a
\* dispatch() that returned.
C13_ParentIsFileInProgress ==
    \A e \in Range(producers) : files[e.id].parent = e.file


\* C14 as stated: once dispatch() has outputted a file, the parser
\* recorded in it is not a parser whose run() on it raised UnableToParse.
C14_HandlerNeverMisidentifier ==
    Done =>
        ~\E i \in 1..Len(runLog) :
            /\ runLog[i].parser = Current.parser
            /\ runLog[i].outcome = "UnableToParse"

\* C14 as amended: once the loop over a file is over, the parser recorded
\* in it is the last parser executed on it, however its run() ended, and
\* None if none was executed; so it is a parser whose run() raised
\* UnableToParse exactly when the last execute on the file ended that way,
\* as it does when every matching parser raised UnableToParse.
C14_HandlerIsLastExecuted ==
    [](LoopOver =>
          /\ Current.parser =
                (IF runLog = <<>> THEN None ELSE runLog[Len(runLog)].parser)
          /\ (\E i \in 1..Len(runLog) :
                  /\ runLog[i].parser = Current.parser
                  /\ runLog[i].outcome = "UnableToParse")
             <=> (runLog # <<>> /\ runLog[Len(runLog)].outcome = "UnableToParse"))

\* P1 and P2 both matched a file and both raised UnableToParse; the file
\* was outputted with P2 recorded as its parser
C14_Witness ==
    /\ Done
    /\ Len(runLog) = 2
    /\ runLog[1].outcome = "UnableToParse"
    /\ runLog[2].outcome = "UnableToParse"
    /\ Current.parser = "P2"


\* the popped files in which a parser is recorded, in pop order
ExecutedFiles == SelectSeq(dequeued, LAMBDA d : files[d].parser # None)

\* C17: once the loop over a file is over and until the next file is
\* popped, _current_file_object is the parent of that file, so None after
\* dispatch() has processed a single file without parent.
C17_CurrentResetToParent ==
    LoopOver => current_file_object = Current.parent

\* C17, what dispatch() does instead: it assigns _current_file_object only
\* when a parser is about to be executed and never resets it.  At any
\* moment it is the last popped file on which a parser was executed, None
\* only as long as no parser was executed at all; so once the loop over a
\* file on which a parser ran is over, and after dispatch() returned, it
\* is still that file, not its parent.
C17_CurrentIsLastExecutedFile ==
    /\ current_file_object =
          (IF ExecutedFiles = <<>> THEN NoFile
           ELSE ExecutedFiles[Len(ExecutedFiles)])
    /\ LoopOver /\ runLog # <<>> => current_file_object = file_object

\* dispatch() has returned from a single file without parent on which a
\* parser ran: _current_file_object is that file
C17_Witness ==
    /\ pc = "idle"
    /\ Len(files) = 1
    /\ dequeued = <<1>>
    /\ runLog # <<>>
    /\ files[1].parent = NoFile
    /\ current_file_object = 1


C16_KnowledgeBaseKeepsLastWrite ==
    \A k \in Keys : knowledge_base[k] = kbWritten[k]

\* "v1" was assigned while a parser ran on file 1; dispatch() has since
\* finished file 1 and popped its child file 2, no parser has run on file
\* 2 yet, and the key is still at "v1" for the parsers to come
C16_Witness ==
    /\ pc = "identify"
    /\ file_object = 2
    /\ files[2].parent = 1
    /\ runLog = <<>>
    /\ kbWritten["key"] = "v1"
    /\ knowledge_base["key"] = "v1"


\* the step changes the description of file id
DescriptionChanges(id) == files'[id].description # files[id].description

\* the step is an identify() call that sets the description
PredicateEdit == pc = "identify" /\ sideEffects' = sideEffects + 1

\* C18: dispatch() changes the description of a file only when it is
\* about to execute a parser on it and the description is empty then, to
\* the DESCRIPTION of that parser; it never changes a non-empty one, be it
\* from the construction, from an identify() or from an earlier parser,
\* and it does not take the description back when the parser ends, with
\* UnableToParse or otherwise.  So when no identify() edits descriptions,
\* a file that had none when its first parser was chosen carries the
\* DESCRIPTION of that parser from then on, also while later parsers run.
C18_DescriptionSetIfEmpty ==
    /\ [][\A id \in FileIds :
             /\ DescriptionChanges(id) /\ ~PredicateEdit =>
                   /\ id = file_object
                   /\ pc = "identify" /\ pc' = "run"
                   /\ ~Truthy(files[id].description)
                   /\ files'[id].description =
                         DESCRIPTION(runLog'[Len(runLog')].parser)
             /\ DescriptionChanges(id) /\ PredicateEdit =>
                   /\ id = file_object
                   /\ files'[id].description = IdentifyDescription]_vars
    /\ [](sideEffects = 0 /\ runLog # <<>> =>
             /\ Current.description =
                   (IF runLog[1].described THEN "Given"
                    ELSE DESCRIPTION(runLog[1].parser))
             /\ \A i \in 2..Len(runLog) : runLog[i].described)

\* a file without description: P1 was chosen and raised UnableToParse,
\* and P2 now runs on the file, which still carries the DESCRIPTION of P1
C18_Witness ==
    /\ pc = "run"
    /\ Len(runLog) = 2
    /\ runLog[1].parser = "P1"
    /\ ~runLog[1].described
    /\ runLog[1].outcome = "UnableToParse"
    /\ runLog[2].parser = "P2"
    /\ Current.description = "Stage 1"


\* run() of the parser of entry e of runLog has ended without UnableToParse
Settled(e) == e.outcome \in {"ok", "Exception"}

\* C19: for each file the identify() of the registered parsers are called
\* in registration order, each at most once; identify() of a parser is
\* called only when run() of every earlier matching parser has ended, so
\* while a parser runs it is the last one asked; and without greedy, once
\* run() of a matching parser has ended without UnableToParse, no further
\* identify() is called for the file.
C19_LazyOrderedIdentification ==
    [](/\ Len(Asked) <= Len(parsers)
       /\ \A i \in 1..Len(Asked) : Asked[i] = parsers[i]
       /\ ExecutedRegistered = Matched
       /\ \A i \in 1..Len(runLog) :
             /\ runLog[i].outcome = "running" => i = Len(runLog) /\ pc = "run"
             /\ (/\ runLog[i].parser \in Range(parsers)
                 /\ i = Len(runLog)
                 /\ \/ runLog[i].outcome = "running"
                    \/ ~greedy /\ Settled(runLog[i]))
                => Asked[Len(Asked)] = runLog[i].parser
             /\ ~greedy /\ Settled(runLog[i]) => i = Len(runLog))

\* without greedy P1 matched a file and returned: the file was outputted
\* and P2 was never asked
C19_Witness ==
    /\ ~greedy
    /\ Done
    /\ Asked = <<"P1">>
    /\ Len(runLog) = 1
    /\ runLog[1].outcome = "ok"


\* C20: on a file that some registered parser matched the default is
\* never executed, also when run() of every matching parser raised
\* UnableToParse: only the matching registered parsers are executed on it,
\* the generator ends with `identified` set, and the file is outputted
\* with the last of them recorded as its parser.
C20_NoDefaultAfterMatch ==
    [](Matched # <<>> =>
          /\ UnidentifiedFile \notin Range(Executed)
          /\ Executed = Matched
          /\ pc = "identify" => identified
          /\ Done => Current.parser = Matched[Len(Matched)])

\* a default is configured, P1 and P2 matched a file and both raised
\* UnableToParse, and the file was outputted with no other parser executed
C20_Witness ==
    /\ default = UnidentifiedFile
    /\ Done
    /\ Matched = <<"P1", "P2">>
    /\ Executed = <<"P1", "P2">>
    /\ \A i \in 1..Len(runLog) : runLog[i].outcome = "UnableToParse"

====
